---- MODULE Spec2Model ----
(***************************************************************************)
(* nonstd::fifo_set / nonstd::fifo_map: a std::forward_list of elements    *)
(* (the order list) plus a std::unordered_map from a reference to each     *)
(* element's identity to the list iterator BEFORE that element (the        *)
(* predecessor index), plus list_back (the tail cursor).                   *)
(*                                                                         *)
(* The heap is modelled explicitly.  A list position is an integer:        *)
(*   before_begin(c) = -c   the before-begin slot of container c's list,   *)
(*   1..MaxNodes            the address of a forward_list node,            *)
(*   End = 0                the end() iterator (null link).                *)
(* Every member function is an operator from the memory S it runs on to    *)
(* the memory it leaves and the value it returns; the actions apply these  *)
(* operators to the current memory Cur.  Both facades share one engine;    *)
(* the variable facade says which of the two headers the containers of a   *)
(* behaviour are instances of.                                             *)
(***************************************************************************)
EXTENDS Integers, Sequences, FiniteSets, TLC

\* Bounds of the model: identities 1..MaxId, node addresses 1..MaxNodes.
MaxId == 3
MaxNodes == 4

Ids == 1 .. MaxId
Addrs == 1 .. MaxNodes

\* Two container objects, so that one can be moved into the other.
Containers == {1, 2}

\* mapped_type{}: the value-initialised mapped value operator[] inserts.
DefaultMapped == 0

\* The mapped values a caller passes: the default and one other.
MappedVals == {DefaultMapped, DefaultMapped + 1}

\* list.end(): the null link that ends a forward_list.
End == 0

\* The identity field of storage that holds no element.
NoId == 0

\* map.end() / "no such entry" in the predecessor index.
NoEntry == MaxNodes + 1

\* list.before_begin() of container c: a slot inside the container object.
before_begin(c) == 0 - c

Sentinels == {before_begin(c) : c \in Containers}
Pos == Sentinels \cup Addrs

VARIABLES
    facade,     \* "set" (fifo-set.hpp) or "map" (fifo-map.hpp)
    alive,      \* the container objects whose lifetime has begun
    live,       \* addresses of allocated forward_list nodes
    next,       \* next[p]: the link stored in slot p (sentinel or node)
    val,        \* val[a]: the value (set) or key (map) stored in node a
    mapped,     \* mapped[a]: the mapped value stored in node a (map)
    map,        \* map[c][a]: the index entry whose key refers to node a
    list_back,  \* list_back[c]: the member list_back of container c
    model,      \* history: the reference list of each container
    movedFrom,  \* history: c was the source of a move and not reset since
    copyOf      \* history: copyOf[d] tells that the last mutating call
                \* copy-constructed or copy-assigned d, and from which
                \* container

vars == <<facade, alive, live, next, val, mapped, map, list_back, model,
          movedFrom, copyOf>>

\* The memory the member functions run on.
Cur ==
    [live |-> live, next |-> next, val |-> val, mapped |-> mapped,
     map |-> map, list_back |-> list_back]

\* What a member function leaves: the memory, the iterator it returns (or
\* End), a flag (inserted / found / no exception) and a number.
Res(S, it, ok, n) == [S |-> S, it |-> it, ok |-> ok, n |-> n]

Range(s) == {s[i] : i \in 1 .. Len(s)}

(***************************************************************************)
(* std::forward_list                                                       *)
(***************************************************************************)

\* The allocator: the address operator new returns for the next node.
NewNode(S) == CHOOSE a \in Addrs \ S.live : \A b \in Addrs \ S.live : a <= b

CanAlloc(S) == Addrs \ S.live # {}

RECURSIVE Walk(_, _, _)
\* The nodes reached from slot p by following at most fuel links of nx.
Walk(nx, p, fuel) ==
    IF p = End \/ fuel = 0 THEN <<>>
    ELSE <<p>> \o Walk(nx, nx[p], fuel - 1)

\* begin()..end() of container c as node addresses, then as identities.
Nodes(S, c) == Walk(S.next, S.next[before_begin(c)], MaxNodes)
Iterate(S, c) ==
    LET n == Nodes(S, c) IN [i \in 1 .. Len(n) |-> S.val[n[i]]]

\* list.empty()
list_empty(S, c) == S.next[before_begin(c)] = End

\* list.insert_after(p, value): link a new node after slot p.  The returned
\* iterator is the new node, next[p] of the result.
insert_after(S, p, x, v) ==
    LET a == NewNode(S) IN
    [S EXCEPT !.live = @ \cup {a},
              !.next = [@ EXCEPT ![a] = S.next[p], ![p] = a],
              !.val[a] = x,
              !.mapped[a] = v]

\* Deallocation of the nodes in freed.
Free(S, freed) ==
    [S EXCEPT !.live = @ \ freed,
              !.next = [p \in Pos |-> IF p \in freed THEN End ELSE @[p]],
              !.val = [a \in Addrs |-> IF a \in freed THEN NoId ELSE @[a]],
              !.mapped = [a \in Addrs |->
                            IF a \in freed THEN DefaultMapped ELSE @[a]]]

\* list.erase_after(p): unlink and free the node after slot p.  The returned
\* iterator is what followed that node, next[p] of the result.
erase_after(S, p) ==
    LET a == S.next[p] IN
    Free([S EXCEPT !.next[p] = S.next[a]], {a})

\* list.clear()
list_clear(S, c) ==
    Free([S EXCEPT !.next[before_begin(c)] = End], Range(Nodes(S, c)))

(***************************************************************************)
(* std::unordered_map<value_reference, list_iterator>                      *)
(***************************************************************************)

EmptyMap == [a \in Addrs |-> NoEntry]

\* The nodes the keys of map[c] refer to.
Keys(S, c) == {a \in Addrs : S.map[c][a] # NoEntry}

\* m.find(x) on an index m: the entry whose referenced identity equals x
\* (hash and operator== delegate to the identity); NoEntry stands for
\* m.end().
Find(S, m, x) ==
    IF \E a \in Addrs : m[a] # NoEntry /\ S.val[a] = x
    THEN CHOOSE a \in Addrs : m[a] # NoEntry /\ S.val[a] = x
    ELSE NoEntry

MapFind(S, c, x) == Find(S, S.map[c], x)

\* m.emplace(key referring to node a, p): no effect when an equal key exists.
MapEmplace(S, m, a, p) ==
    IF Find(S, m, S.val[a]) # NoEntry THEN m ELSE [m EXCEPT ![a] = p]

(***************************************************************************)
(* Insertion                                                               *)
(***************************************************************************)

\* Faulty variant of append_new: list_back is left where it was.
append_new_stale_back(S, c, x, v) ==
    LET list_before_item == S.list_back[c]
        S1 == insert_after(S, S.list_back[c], x, v)
        a == S1.next[list_before_item]
    IN  Res([S1 EXCEPT !.map[c] = MapEmplace(S1, @, a, list_before_item)],
            a, TRUE, 0)

\* emplace_back, the branch map_it == map.end(): the new node is linked
\* after list_back, list_back becomes the new node, the index gets the
\* entry (new node -> old list_back).
append_new(S, c, x, v) ==
    LET list_before_item == S.list_back[c]
        S1 == insert_after(S, S.list_back[c], x, v)
        a == S1.next[list_before_item]
        S2 == [S1 EXCEPT !.list_back[c] = a]
    IN  Res([S2 EXCEPT !.map[c] = MapEmplace(S2, @, a, list_before_item)],
            a, TRUE, 0)

\* Faulty variant of return_existing: the entry is returned as stored, not
\* advanced.
return_existing_entry(S, c, map_it) ==
    Res(S, S.map[c][map_it], FALSE, 0)

\* emplace_back / emplace_front, the branch map_it != map.end(): the entry
\* advanced one step, and false.
return_existing(S, c, map_it) ==
    Res(S, S.next[S.map[c][map_it]], FALSE, 0)

emplace_back(S, c, x, v) ==
    LET map_it == MapFind(S, c, x) IN
    IF map_it = NoEntry THEN append_new(S, c, x, v)
    ELSE return_existing(S, c, map_it)

\* For interface compatibility with std::unordered_set / unordered_map.
emplace(S, c, x, v) == emplace_back(S, c, x, v)

\* Faulty variant of prepend_new: the new node is linked after the sentinel
\* and indexed, but neither the old first node's entry nor list_back is
\* assigned.
prepend_new_no_rebind(S, c, x) ==
    LET S1 == insert_after(S, before_begin(c), x, DefaultMapped)
        a == S1.next[before_begin(c)]
    IN  Res([S1 EXCEPT !.map[c] = MapEmplace(S1, @, a, before_begin(c))],
            a, TRUE, 0)

\* emplace_front, the branch map_it == map.end().  list_it is a reference
\* to list_back (empty container) or to the index entry of list.front();
\* the new node is linked after the position it holds and then stored in
\* it, and the index gets the entry (new node -> that position).
prepend_new(S, c, x) ==
    LET wasEmpty == Keys(S, c) = {}
        front == MapFind(S, c, S.val[S.next[before_begin(c)]])
        list_before_item ==
            IF wasEmpty THEN S.list_back[c] ELSE S.map[c][front]
        S1 == insert_after(S, list_before_item, x, DefaultMapped)
        a == S1.next[list_before_item]
        S2 == IF wasEmpty THEN [S1 EXCEPT !.list_back[c] = a]
              ELSE [S1 EXCEPT !.map[c][front] = a]
    IN  Res([S2 EXCEPT !.map[c] = MapEmplace(S2, @, a, list_before_item)],
            a, TRUE, 0)

emplace_front(S, c, x) ==
    LET map_it == MapFind(S, c, x) IN
    IF map_it = NoEntry THEN prepend_new(S, c, x)
    ELSE return_existing(S, c, map_it)

\* The allocations of an insertion that can fail with std::bad_alloc: the
\* forward_list node in list.insert_after, the hash node in map.emplace.
AllocSteps == {"list node", "index entry"}

\* emplace_back of an absent identity when the allocation at step fails.
\* insert_after throws before it links anything and before list_back is
\* assigned; map.emplace throws after the node has been linked and list_back
\* assigned.  Nothing catches the exception: ok = FALSE, the memory is what
\* the statements executed so far left.
append_new_bad_alloc(S, c, x, v, step) ==
    LET S1 == insert_after(S, S.list_back[c], x, v)
        a == S1.next[S.list_back[c]]
    IN  IF step = "list node" THEN Res(S, End, FALSE, 0)
        ELSE Res([S1 EXCEPT !.list_back[c] = a], End, FALSE, 0)

\* emplace_front of an absent identity when the allocation at step fails;
\* list_it (list_back, or the entry of list.front()) has been assigned the
\* new node when map.emplace throws.
prepend_new_bad_alloc(S, c, x, step) ==
    LET wasEmpty == Keys(S, c) = {}
        front == MapFind(S, c, S.val[S.next[before_begin(c)]])
        list_before_item ==
            IF wasEmpty THEN S.list_back[c] ELSE S.map[c][front]
        S1 == insert_after(S, list_before_item, x, DefaultMapped)
        a == S1.next[list_before_item]
    IN  IF step = "list node" THEN Res(S, End, FALSE, 0)
        ELSE IF wasEmpty
             THEN Res([S1 EXCEPT !.list_back[c] = a], End, FALSE, 0)
             ELSE Res([S1 EXCEPT !.map[c][front] = a], End, FALSE, 0)

(***************************************************************************)
(* Erase and clear                                                         *)
(***************************************************************************)

\* Faulty variant of erase_entry: the successor's entry is not rebound.
erase_entry_no_rebind(S, c, map_it) ==
    LET list_before_item == S.map[c][map_it]
        S1 == [S EXCEPT !.map[c][map_it] = NoEntry]
        S2 == erase_after(S1, list_before_item)
        list_it == S2.next[list_before_item]
    IN  IF list_it = End
        THEN [S2 EXCEPT !.list_back[c] = list_before_item]
        ELSE S2

\* Faulty variant of erase_entry: list_back is not moved back when the last
\* node is erased.
erase_entry_stale_back(S, c, map_it) ==
    LET list_before_item == S.map[c][map_it]
        S1 == [S EXCEPT !.map[c][map_it] = NoEntry]
        S2 == erase_after(S1, list_before_item)
        list_it == S2.next[list_before_item]
    IN  IF list_it = End
        THEN S2
        ELSE [S2 EXCEPT !.map[c][MapFind(S2, c, S2.val[list_it])] =
                           list_before_item]

\* Faulty variant of erase_entry: list_back is set to the predecessor in
\* both branches, also when a node follows the erased one.
erase_entry_always_tail(S, c, map_it) ==
    LET list_before_item == S.map[c][map_it]
        S1 == [S EXCEPT !.map[c][map_it] = NoEntry]
        S2 == erase_after(S1, list_before_item)
        list_it == S2.next[list_before_item]
        S3 == [S2 EXCEPT !.list_back[c] = list_before_item]
    IN  IF list_it = End
        THEN S3
        ELSE [S3 EXCEPT !.map[c][MapFind(S3, c, S3.val[list_it])] =
                           list_before_item]

\* Both erase overloads from the line that reads map_it->second on: the
\* entry is erased, the node after list_before_item unlinked; then either
\* list_back or the successor's entry becomes list_before_item.
erase_entry(S, c, map_it) ==
    LET list_before_item == S.map[c][map_it]
        S1 == [S EXCEPT !.map[c][map_it] = NoEntry]
        S2 == erase_after(S1, list_before_item)
        list_it == S2.next[list_before_item]
    IN  IF list_it = End
        THEN [S2 EXCEPT !.list_back[c] = list_before_item]
        ELSE [S2 EXCEPT !.map[c][MapFind(S2, c, S2.val[list_it])] =
                           list_before_item]

\* erase(list_iterator): the index is searched for the identity read
\* through list_it, whichever list the node is in.  ok tells whether
\* assert(map_it != map.end()) held; where it fails the call is abandoned
\* with the memory as it was (a build with NDEBUG goes on to dereference
\* map.end(), which is undefined).
erase_it(S, c, list_it) ==
    LET map_it == MapFind(S, c, S.val[list_it]) IN
    IF map_it = NoEntry THEN Res(S, End, FALSE, 0)
    ELSE Res(erase_entry(S, c, map_it), End, TRUE, 0)

\* Faulty variant of erase by identity: without the early return, an absent
\* identity unlinks the first node.
erase_without_check(S, c, x) ==
    LET map_it == MapFind(S, c, x) IN
    IF map_it = NoEntry /\ ~list_empty(S, c)
    THEN Res(erase_entry(S, c, S.next[before_begin(c)]), End, TRUE, 0)
    ELSE IF map_it = NoEntry THEN Res(S, End, FALSE, 0)
    ELSE Res(erase_entry(S, c, map_it), End, TRUE, 0)

\* erase(value_type const&) / erase(key_type const&); ok tells whether an
\* entry was found.
erase(S, c, x) ==
    LET map_it == MapFind(S, c, x) IN
    IF map_it = NoEntry THEN Res(S, End, FALSE, 0)
    ELSE Res(erase_entry(S, c, map_it), End, TRUE, 0)

\* Faulty variant of clear: the list is not cleared.
clear_keeps_list(S, c) ==
    Res([S EXCEPT !.map[c] = EmptyMap, !.list_back[c] = before_begin(c)],
        End, TRUE, 0)

\* Faulty variant of clear: list_back is not reset.
clear_keeps_tail(S, c) ==
    Res(list_clear([S EXCEPT !.map[c] = EmptyMap], c), End, TRUE, 0)

\* Faulty variant of clear: the index is not cleared.
clear_keeps_index(S, c) ==
    Res([list_clear(S, c) EXCEPT !.list_back[c] = before_begin(c)],
        End, TRUE, 0)

clear(S, c) ==
    LET S1 == [S EXCEPT !.map[c] = EmptyMap]
        S2 == list_clear(S1, c)
    IN  Res([S2 EXCEPT !.list_back[c] = before_begin(c)], End, TRUE, 0)

(***************************************************************************)
(* Lookup (const member functions: the memory is returned as it was)       *)
(***************************************************************************)

\* count(x) is map.count(x)
count(S, c, x) ==
    Res(S, End, TRUE, Cardinality({a \in Keys(S, c) : S.val[a] = x}))

\* size() is map.size()
size(S, c) == Res(S, End, TRUE, Cardinality(Keys(S, c)))

\* empty() is map.empty(); the flag is the result.
empty(S, c) == Res(S, End, Keys(S, c) = {}, 0)

\* Faulty variant of find: the entry is returned as stored, not advanced.
find_no_advance(S, c, x) ==
    LET map_it == MapFind(S, c, x) IN
    IF map_it = NoEntry THEN Res(S, End, TRUE, 0)
    ELSE Res(S, S.map[c][map_it], TRUE, 0)

\* find(x): end() or the index entry advanced one step.
find(S, c, x) ==
    LET map_it == MapFind(S, c, x) IN
    IF map_it = NoEntry THEN Res(S, End, TRUE, 0)
    ELSE Res(S, S.next[S.map[c][map_it]], TRUE, 0)

\* Faulty variant of at: map.find instead of map.at, so that an absent key
\* yields a default value instead of an exception.
at_unchecked(S, c, key) ==
    LET map_it == MapFind(S, c, key) IN
    IF map_it = NoEntry THEN Res(S, End, TRUE, DefaultMapped)
    ELSE LET list_it == S.next[S.map[c][map_it]]
         IN  Res(S, list_it, TRUE, S.mapped[list_it])

\* fifo_map::at: map.at(key) throws std::out_of_range when key is absent
\* (ok = FALSE); otherwise the entry advanced one step, ->second.
at(S, c, key) ==
    LET map_it == MapFind(S, c, key) IN
    IF map_it = NoEntry THEN Res(S, End, FALSE, 0)
    ELSE LET list_it == S.next[S.map[c][map_it]]
         IN  Res(S, list_it, TRUE, S.mapped[list_it])

\* Faulty variant of operator[]: an absent key is inserted with a mapped
\* value that is not value-initialised.
subscript_nondefault(S, c, key) ==
    LET map_it == MapFind(S, c, key) IN
    IF map_it # NoEntry
    THEN Res(S, S.next[S.map[c][map_it]], FALSE,
             S.mapped[S.next[S.map[c][map_it]]])
    ELSE LET r == append_new(S, c, key, DefaultMapped + 1)
         IN  Res(r.S, r.it, r.ok, r.S.mapped[r.it])

\* fifo_map::operator[]: it is the node whose mapped value is referred to,
\* n that value, ok whether a node was inserted.
subscript(S, c, key) ==
    LET list_it == find(S, c, key).it IN
    IF list_it # End THEN Res(S, list_it, FALSE, S.mapped[list_it])
    ELSE LET r == emplace(S, c, key, DefaultMapped)
         IN  Res(r.S, r.it, r.ok, r.S.mapped[r.it])

\* m[key] = v: the caller assigns through the reference operator[] returns.
subscript_assign(S, c, key, v) ==
    LET r == subscript(S, c, key) IN
    Res([r.S EXCEPT !.mapped[r.it] = v], r.it, r.ok, v)

(***************************************************************************)
(* Move and destruction                                                    *)
(***************************************************************************)

\* Faulty variant of move_members: list_back is taken from the source also
\* when the moved list is empty.
move_members_tail_verbatim(S, d, s) ==
    LET first == S.next[before_begin(s)]
        S1 == [S EXCEPT !.map[d] = S.map[s], !.map[s] = EmptyMap]
        S2 == [S1 EXCEPT !.next[before_begin(d)] = first,
                         !.next[before_begin(s)] = End]
    IN  [S2 EXCEPT !.list_back[d] = S.list_back[s]]

\* The three members of d once map and list have been moved out of s (whose
\* map and list are left empty and whose list_back is not touched) and
\* list_back initialised or assigned: before_begin() of d when the moved list
\* is empty, s.list_back otherwise.
move_members(S, d, s) ==
    LET first == S.next[before_begin(s)]
        S1 == [S EXCEPT !.map[d] = S.map[s], !.map[s] = EmptyMap]
        S2 == [S1 EXCEPT !.next[before_begin(d)] = first,
                         !.next[before_begin(s)] = End]
    IN  [S2 EXCEPT !.list_back[d] =
                      IF list_empty(S2, d) THEN before_begin(d)
                      ELSE S.list_back[s]]

\* Faulty variant of repair_front: the entry of list.front() keeps pointing
\* at the source's before_begin().
repair_front_missing(S, d) == S

\* if (!list.empty()) map.at(list.front()) = list.before_begin();
repair_front(S, d) ==
    IF list_empty(S, d) THEN S
    ELSE [S EXCEPT !.map[d][MapFind(S, d, S.val[S.next[before_begin(d)]])] =
                      before_begin(d)]

\* fifo_set(fifo_set&&) / fifo_map(fifo_map&&): d is the object under
\* construction, its list owns no node yet.
move_construct(S, d, s) == Res(repair_front(move_members(S, d, s), d),
                               End, TRUE, 0)

\* operator=(fifo_set&&) / operator=(fifo_map&&), d and s distinct objects:
\* the nodes d's list owned are freed by the list's move assignment.
move_assign(S, d, s) ==
    Res(repair_front(move_members(Free(S, Range(Nodes(S, d))), d, s), d),
        End, TRUE, 0)

\* The implicit destructor: the map and the list release what they own.
destroy(S, c) ==
    LET S1 == list_clear([S EXCEPT !.map[c] = EmptyMap], c)
    IN  Res([S1 EXCEPT !.list_back[c] = before_begin(c)], End, TRUE, 0)

(***************************************************************************)
(* Copy (fifo-set.hpp only; fifo_map deletes both copy operations)         *)
(***************************************************************************)

RECURSIVE copy_loop(_, _, _)
\* for (auto&& kv: x) emplace_back(kv); with the iterator of the range-for
\* at position it of x's list: each step reads the element through the
\* iterator, inserts it into d and advances the iterator in the memory the
\* insertion left.
copy_loop(S, d, it) ==
    IF it = End THEN S
    ELSE LET S1 == emplace_back(S, d, S.val[it], DefaultMapped).S
         IN  copy_loop(S1, d, S1.next[it])

RECURSIVE list_copy(_, _, _)
\* The copy constructor of std::forward_list: the elements from it on are
\* copied into new nodes linked after slot p.
list_copy(S, p, it) ==
    IF it = End THEN S
    ELSE LET S1 == insert_after(S, p, S.val[it], S.mapped[it])
         IN  list_copy(S1, S1.next[p], S1.next[it])

\* Faulty variant of the copy constructor: memberwise, as a defaulted copy
\* constructor would be.  The list is copied into new nodes, the index and
\* list_back are copied as they are and keep referring to x's nodes.
copy_construct_memberwise(S, d, x) ==
    Res([list_copy(S, before_begin(d), S.next[before_begin(x)])
            EXCEPT !.map[d] = S.map[x], !.list_back[d] = S.list_back[x]],
        End, TRUE, 0)

\* fifo_set(fifo_set const& x): d is the object under construction, its
\* members hold their default initialisers; the loop starts at x.begin().
copy_construct(S, d, x) ==
    Res(copy_loop(S, d, S.next[before_begin(x)]), End, TRUE, 0)

\* operator=(fifo_set const& x): clear(), then the loop from x.begin() as
\* it is after the clear().  d and x may be the same object.
copy_assign(S, d, x) ==
    LET S1 == clear(S, d).S
    IN  Res(copy_loop(S1, d, S1.next[before_begin(x)]), End, TRUE, 0)

(***************************************************************************)
(* The reference list (history variable model)                             *)
(***************************************************************************)

RefAppend(s, x) == IF x \in Range(s) THEN s ELSE Append(s, x)
RefPrepend(s, x) == IF x \in Range(s) THEN s ELSE <<x>> \o s
RefRemove(s, x) == SelectSeq(s, LAMBDA y : y # x)

(***************************************************************************)
(* Actions: one call of a member function on the current memory            *)
(***************************************************************************)

Apply(S) ==
    /\ live' = S.live
    /\ next' = S.next
    /\ val' = S.val
    /\ mapped' = S.mapped
    /\ map' = S.map
    /\ list_back' = S.list_back

\* copyOf when no container is a fresh copy.
NoCopy == [c \in Containers |-> <<"none", 0>>]

\* Free heap nodes, the number an operation needing n new nodes must find.
FreeNodes(S) == Cardinality(Addrs \ S.live)

\* The mapped values a caller passes with identity x: the set facade stores
\* none, and on the map facade the callers modelled give key 1 either value
\* and every other key the default.
Payloads(x) ==
    IF facade = "map" /\ x = 1 THEN MappedVals ELSE {DefaultMapped}

\* c may be inserted into: it is alive, it has not been left moved-from, and
\* the insertion finds x or finds memory for a new node.
CanInsert(c, x) ==
    /\ c \in alive
    /\ ~movedFrom[c]
    /\ MapFind(Cur, c, x) # NoEntry \/ CanAlloc(Cur)

EmplaceBack(c, x, v) ==
    /\ CanInsert(c, x)
    /\ Apply(emplace_back(Cur, c, x, v).S)
    /\ model' = [model EXCEPT ![c] = RefAppend(@, x)]
    /\ copyOf' = NoCopy
    /\ UNCHANGED <<facade, alive, movedFrom>>

Emplace(c, x, v) ==
    /\ CanInsert(c, x)
    /\ Apply(emplace(Cur, c, x, v).S)
    /\ model' = [model EXCEPT ![c] = RefAppend(@, x)]
    /\ copyOf' = NoCopy
    /\ UNCHANGED <<facade, alive, movedFrom>>

EmplaceFront(c, x) ==
    /\ facade = "set"
    /\ CanInsert(c, x)
    /\ Apply(emplace_front(Cur, c, x).S)
    /\ model' = [model EXCEPT ![c] = RefPrepend(@, x)]
    /\ copyOf' = NoCopy
    /\ UNCHANGED <<facade, alive, movedFrom>>

\* erase(list_iterator) with a handle h of a node of this container.
EraseIt(c, h) ==
    /\ c \in alive
    /\ h \in Range(Nodes(Cur, c))
    /\ Apply(erase_it(Cur, c, h).S)
    /\ model' = [model EXCEPT ![c] = RefRemove(@, val[h])]
    /\ copyOf' = NoCopy
    /\ UNCHANGED <<facade, alive, movedFrom>>

EraseKey(c, x) ==
    /\ c \in alive
    /\ Apply(erase(Cur, c, x).S)
    /\ model' = [model EXCEPT ![c] = RefRemove(@, x)]
    /\ copyOf' = NoCopy
    /\ UNCHANGED <<facade, alive, movedFrom>>

Clear(c) ==
    /\ c \in alive
    /\ Apply(clear(Cur, c).S)
    /\ model' = [model EXCEPT ![c] = <<>>]
    /\ movedFrom' = [movedFrom EXCEPT ![c] = FALSE]
    /\ copyOf' = NoCopy
    /\ UNCHANGED <<facade, alive>>

FindOp(c, x) ==
    /\ c \in alive
    /\ Apply(find(Cur, c, x).S)
    /\ UNCHANGED <<facade, alive, model, movedFrom, copyOf>>

CountOp(c, x) ==
    /\ c \in alive
    /\ Apply(count(Cur, c, x).S)
    /\ UNCHANGED <<facade, alive, model, movedFrom, copyOf>>

SizeOp(c) ==
    /\ c \in alive
    /\ Apply(size(Cur, c).S)
    /\ UNCHANGED <<facade, alive, model, movedFrom, copyOf>>

EmptyOp(c) ==
    /\ c \in alive
    /\ Apply(empty(Cur, c).S)
    /\ UNCHANGED <<facade, alive, model, movedFrom, copyOf>>

At(c, k) ==
    /\ facade = "map"
    /\ c \in alive
    /\ Apply(at(Cur, c, k).S)
    /\ UNCHANGED <<facade, alive, model, movedFrom, copyOf>>

\* m[k] read, and m[k] = v.
Subscript(c, k) ==
    /\ facade = "map"
    /\ CanInsert(c, k)
    /\ Apply(subscript(Cur, c, k).S)
    /\ model' = [model EXCEPT ![c] = RefAppend(@, k)]
    /\ copyOf' = NoCopy
    /\ UNCHANGED <<facade, alive, movedFrom>>

SubscriptAssign(c, k, v) ==
    /\ facade = "map"
    /\ CanInsert(c, k)
    /\ Apply(subscript_assign(Cur, c, k, v).S)
    /\ model' = [model EXCEPT ![c] = RefAppend(@, k)]
    /\ copyOf' = NoCopy
    /\ UNCHANGED <<facade, alive, movedFrom>>

\* fifo_set() / fifo_map(): the default member initialisers.
Construct(c) ==
    /\ c \notin alive
    /\ alive' = alive \cup {c}
    /\ copyOf' = NoCopy
    /\ UNCHANGED <<facade, live, next, val, mapped, map, list_back, model,
                   movedFrom>>

MoveConstruct(d, s) ==
    /\ d \notin alive
    /\ s \in alive
    /\ alive' = alive \cup {d}
    /\ Apply(move_construct(Cur, d, s).S)
    /\ model' = [model EXCEPT ![d] = model[s], ![s] = <<>>]
    /\ movedFrom' = [movedFrom EXCEPT ![d] = FALSE, ![s] = TRUE]
    /\ copyOf' = NoCopy
    /\ UNCHANGED facade

MoveAssign(d, s) ==
    /\ d \in alive
    /\ s \in alive
    /\ d # s
    /\ Apply(move_assign(Cur, d, s).S)
    /\ model' = [model EXCEPT ![d] = model[s], ![s] = <<>>]
    /\ movedFrom' = [movedFrom EXCEPT ![d] = FALSE, ![s] = TRUE]
    /\ copyOf' = NoCopy
    /\ UNCHANGED <<facade, alive>>

\* fifo_set b{a}: copy construction of d from x, with memory for the nodes.
CopyConstruct(d, x) ==
    /\ facade = "set"
    /\ d \notin alive
    /\ x \in alive
    /\ FreeNodes(Cur) >= Len(Nodes(Cur, x))
    /\ alive' = alive \cup {d}
    /\ Apply(copy_construct(Cur, d, x).S)
    /\ model' = [model EXCEPT ![d] = model[x]]
    /\ movedFrom' = [movedFrom EXCEPT ![d] = FALSE]
    /\ copyOf' = [NoCopy EXCEPT ![d] = <<"constructed", x>>]
    /\ UNCHANGED facade

\* b = a: copy assignment to d from another container x, with memory for
\* the nodes once d's own have been released.
CopyAssign(d, x) ==
    /\ facade = "set"
    /\ d \in alive
    /\ x \in alive
    /\ d # x
    /\ FreeNodes(Cur) + Len(Nodes(Cur, d)) >= Len(Nodes(Cur, x))
    /\ Apply(copy_assign(Cur, d, x).S)
    /\ model' = [model EXCEPT ![d] = model[x]]
    /\ movedFrom' = [movedFrom EXCEPT ![d] = FALSE]
    /\ copyOf' = [NoCopy EXCEPT ![d] = <<"assigned", x>>]
    /\ UNCHANGED <<facade, alive>>

Destroy(c) ==
    /\ c \in alive
    /\ alive' = alive \ {c}
    /\ Apply(destroy(Cur, c).S)
    /\ model' = [model EXCEPT ![c] = <<>>]
    /\ movedFrom' = [movedFrom EXCEPT ![c] = FALSE]
    /\ copyOf' = NoCopy
    /\ UNCHANGED facade

(***************************************************************************)
(* Specification.  A container that has been moved from is cleared,        *)
(* assigned to, moved from again or destroyed before anything is inserted  *)
(* into it; an assignment has two distinct objects as its operands; erase  *)
(* by iterator is given an iterator of the container; an insertion finds   *)
(* the memory it needs.                                                    *)
(***************************************************************************)

Init ==
    /\ facade \in {"set", "map"}
    /\ alive = {1}
    /\ live = {}
    /\ next = [p \in Pos |-> End]
    /\ val = [a \in Addrs |-> NoId]
    /\ mapped = [a \in Addrs |-> DefaultMapped]
    /\ map = [c \in Containers |-> EmptyMap]
    /\ list_back = [c \in Containers |-> before_begin(c)]
    /\ model = [c \in Containers |-> <<>>]
    /\ movedFrom = [c \in Containers |-> FALSE]
    /\ copyOf = NoCopy

Next ==
    \/ \E c \in Containers, x \in Ids : \E v \in Payloads(x) :
          EmplaceBack(c, x, v)
    \/ \E c \in Containers, x \in Ids : \E v \in Payloads(x) :
          Emplace(c, x, v)
    \/ \E c \in Containers, x \in Ids : EmplaceFront(c, x)
    \/ \E c \in Containers, h \in Addrs : EraseIt(c, h)
    \/ \E c \in Containers, x \in Ids : EraseKey(c, x)
    \/ \E c \in Containers : Clear(c)
    \/ \E c \in Containers, x \in Ids : FindOp(c, x)
    \/ \E c \in Containers, x \in Ids : CountOp(c, x)
    \/ \E c \in Containers : SizeOp(c)
    \/ \E c \in Containers : EmptyOp(c)
    \/ \E c \in Containers, k \in Ids : At(c, k)
    \/ \E c \in Containers, k \in Ids : Subscript(c, k)
    \/ \E c \in Containers, k \in Ids : \E v \in Payloads(k) :
          SubscriptAssign(c, k, v)
    \/ \E c \in Containers : Construct(c)
    \/ \E d \in Containers, s \in Containers : MoveConstruct(d, s)
    \/ \E d \in Containers, s \in Containers : MoveAssign(d, s)
    \/ \E d \in Containers, x \in Containers : CopyConstruct(d, x)
    \/ \E d \in Containers, x \in Containers : CopyAssign(d, x)
    \/ \E c \in Containers : Destroy(c)

Spec == Init /\ [][Next]_vars

(***************************************************************************)
(* Vocabulary of the properties                                            *)
(***************************************************************************)

\* x is the identity of a node reached by iterating c.
Present(S, c, x) == x \in Range(Iterate(S, c))

\* The node of c's list that holds identity x.
NodeOf(S, c, x) == CHOOSE a \in Range(Nodes(S, c)) : S.val[a] = x

\* The last element of a non-empty sequence.
Last(s) == s[Len(s)]

\* The 1-based position of x in the sequence s, 0 when absent.
IndexOf(s, x) ==
    IF x \in Range(s) THEN CHOOSE i \in 1 .. Len(s) : s[i] = x ELSE 0

\* Containers an insertion is applied to (see Spec).
Insertable(c) == c \in alive /\ ~movedFrom[c]

\* I2 for container c in memory S: the entry of every node, advanced one
\* step, is the node; equivalently the entry is the node's predecessor.
PredecessorEntries(S, c) ==
    LET n == Nodes(S, c) IN
    \A i \in 1 .. Len(n) :
        LET k == MapFind(S, c, S.val[n[i]])
        IN  /\ k # NoEntry
            /\ S.next[S.map[c][k]] = n[i]
            /\ S.map[c][k] = IF i = 1 THEN before_begin(c) ELSE n[i - 1]

\* I1 and I4 for container c in memory S: the index keys refer to exactly
\* the nodes of the list, and no identity occurs twice.
IndexMatchesList(S, c) ==
    LET n == Nodes(S, c) IN
    /\ Keys(S, c) = Range(n)
    /\ Range(n) \subseteq S.live
    /\ \A i, j \in 1 .. Len(n) : S.val[n[i]] = S.val[n[j]] => i = j

(***************************************************************************)
(* C1  Order refinement                                                    *)
(***************************************************************************)

\* C1: in every reachable state, iterating begin()..end() of each container
\* yields exactly its reference list: emplace_back appends an absent
\* identity and ignores a present one, emplace_front prepends an absent
\* identity and ignores a present one, erase removes the identity, clear
\* empties the list.
C1_OrderRefinesModel ==
    \A c \in Containers : Iterate(Cur, c) = model[c]

\* A set built by insertions at both ends and erasures: three identities in
\* an order that is neither ascending nor an insertion-at-back order of
\* ascending identities.
C1_Witness ==
    /\ facade = "set"
    /\ model[1] = <<3, 1, 2>>
    /\ Iterate(Cur, 1) = <<3, 1, 2>>

(***************************************************************************)
(* C2  Predecessor invariant                                               *)
(***************************************************************************)

\* C2: in every reachable state and for every live node N of every
\* container, the index entry stored for N's identity, advanced one step in
\* the order list, is N; equivalently the entry is N's predecessor position
\* (the container's own sentinel for the first node, the preceding node
\* otherwise).
C2_PredecessorInvariant ==
    \A c \in Containers : PredecessorEntries(Cur, c)

\* Container 2 holds three nodes it received by a move from container 1
\* (which was left moved-from), so its first entry is its own sentinel.
C2_Witness ==
    /\ Len(Nodes(Cur, 2)) = 3
    /\ movedFrom[1]
    /\ map[2][Nodes(Cur, 2)[1]] = before_begin(2)
    /\ map[2][Nodes(Cur, 2)[3]] = Nodes(Cur, 2)[2]

(***************************************************************************)
(* C3  Bijection, size, empty, count                                       *)
(***************************************************************************)

\* C3: in every reachable state the index entries and the list nodes of a
\* container are in bijection (the keys refer to exactly the nodes of the
\* list), no two nodes share an identity, size() is the number of nodes
\* iterated (the identities inserted and not erased since), empty() holds
\* exactly when that number is 0, and count(id) is 1 for a present identity
\* and 0 otherwise.
C3_Bijection ==
    \A c \in Containers :
        /\ IndexMatchesList(Cur, c)
        /\ size(Cur, c).n = Len(Nodes(Cur, c))
        /\ size(Cur, c).n = Len(model[c])
        /\ empty(Cur, c).ok <=> Len(Nodes(Cur, c)) = 0
        /\ \A x \in Ids :
              count(Cur, c, x).n = IF Present(Cur, c, x) THEN 1 ELSE 0

\* Both containers hold elements at once, with a common identity.
C3_Witness ==
    /\ size(Cur, 1).n = 2
    /\ size(Cur, 2).n = 1
    /\ \E x \in Ids : count(Cur, 1, x).n = 1 /\ count(Cur, 2, x).n = 1
    /\ \E x \in Ids : count(Cur, 1, x).n = 0
    /\ ~empty(Cur, 2).ok

(***************************************************************************)
(* C4  Insertion of a present identity                                     *)
(***************************************************************************)

\* C4: in every reachable state, emplace, emplace_back and (set facade)
\* emplace_front called with an identity already present in the container
\* return the memory as it was (size, order, every index entry, list_back,
\* every node and its mapped value) together with the handle of the node
\* that holds the identity and the flag false.
C4_InsertPresentIsNoOp ==
    \A c \in alive : \A x \in Range(Iterate(Cur, c)) :
        LET same == Res(Cur, NodeOf(Cur, c, x), FALSE, 0) IN
        /\ \A v \in MappedVals :
              /\ emplace_back(Cur, c, x, v) = same
              /\ emplace(Cur, c, x, v) = same
        /\ facade = "set" => emplace_front(Cur, c, x) = same

\* A map holding key 1 with a non-default value, not in first position;
\* emplace_back(1, default) returns that node and false.
C4_Witness ==
    /\ facade = "map"
    /\ \E c \in alive :
          /\ Len(Nodes(Cur, c)) = 3
          /\ Present(Cur, c, 1)
          /\ IndexOf(Iterate(Cur, c), 1) = 2
          /\ mapped[NodeOf(Cur, c, 1)] # DefaultMapped
          /\ ~emplace_back(Cur, c, 1, DefaultMapped).ok
          /\ emplace_back(Cur, c, 1, DefaultMapped).it = Nodes(Cur, c)[2]

(***************************************************************************)
(* C5  Erase, then reinsert                                                *)
(***************************************************************************)

\* C5: in every reachable state, for every identity x present in a
\* container, erase(x) followed by emplace_back(x) leaves the container
\* iterating its other elements in their previous relative order followed
\* by x, whatever position x had.
C5_EraseReinsertAppends ==
    \A c \in Containers :
        Insertable(c) =>
            LET order == Iterate(Cur, c) IN
            \A x \in Range(order) :
                LET S1 == erase(Cur, c, x).S
                    others == RefRemove(order, x)
                IN  /\ Iterate(S1, c) = others
                    /\ \A v \in MappedVals :
                          LET S2 == emplace_back(S1, c, x, v).S IN
                          /\ Iterate(S2, c) = Append(others, x)
                          /\ Last(Iterate(S2, c)) = x

\* x = 2 is erased from the middle of <<1, 2, 3>> and comes back last,
\* and in the same state erasing and reinserting the first element 1 or
\* the last element 3 puts each at the back.
C5_Witness ==
    \E c \in Containers :
        /\ Insertable(c)
        /\ Iterate(Cur, c) = <<1, 2, 3>>
        /\ Iterate(emplace_back(erase(Cur, c, 2).S, c, 2, DefaultMapped).S,
                   c) = <<1, 3, 2>>
        /\ Iterate(emplace_back(erase(Cur, c, 1).S, c, 1, DefaultMapped).S,
                   c) = <<2, 3, 1>>
        /\ Iterate(emplace_back(erase(Cur, c, 3).S, c, 3, DefaultMapped).S,
                   c) = <<1, 2, 3>>

(***************************************************************************)
(* C6  find                                                                *)
(***************************************************************************)

\* C6: in every reachable state find(x) returns the node of the container
\* whose identity equals x when x is present (the index entry of that
\* identity advanced one step) and end() when x is absent, and find, count,
\* size and empty return the memory as it was.
C6_FindReturnsNode ==
    \A c \in alive : \A x \in Ids :
        /\ LET r == find(Cur, c, x) IN
           IF Present(Cur, c, x)
           THEN /\ r.it = NodeOf(Cur, c, x)
                /\ r.it \in live
                /\ val[r.it] = x
                /\ r.it = next[map[c][r.it]]
                /\ r.S = Cur
           ELSE r.it = End /\ r.S = Cur
        /\ count(Cur, c, x).S = Cur
        /\ size(Cur, c).S = Cur
        /\ empty(Cur, c).S = Cur

\* A container with two elements: find of the second returns the second
\* node, find of the third identity returns end().
C6_Witness ==
    \E c \in alive : \E x, y \in Ids :
        /\ Len(Nodes(Cur, c)) = 2
        /\ find(Cur, c, x).it = Nodes(Cur, c)[2]
        /\ val[Nodes(Cur, c)[2]] = x
        /\ ~Present(Cur, c, y)
        /\ find(Cur, c, y).it = End

(***************************************************************************)
(* C7  Erase of an absent identity                                         *)
(***************************************************************************)

\* C7: in every reachable state erase(x) for an identity x that is not
\* present returns the memory as it was (order list, every index entry,
\* list_back) and so leaves size() unchanged; it finds nothing and has no
\* failure path.
C7_EraseAbsentIsNoOp ==
    \A c \in alive : \A x \in Ids :
        ~Present(Cur, c, x) =>
            /\ erase(Cur, c, x).S = Cur
            /\ ~erase(Cur, c, x).ok
            /\ size(erase(Cur, c, x).S, c).n = size(Cur, c).n

\* A container with two elements and a third identity that is absent.
C7_Witness ==
    \E c \in alive : \E x \in Ids :
        /\ Len(Nodes(Cur, c)) = 2
        /\ ~Present(Cur, c, x)
        /\ erase(Cur, c, x).S = Cur
        /\ Iterate(erase(Cur, c, x).S, c) = Iterate(Cur, c)

(***************************************************************************)
(* C8  fifo_map::at                                                        *)
(***************************************************************************)

\* C8: on the map facade, in every reachable state, at(key) returns the
\* mapped value of the node whose key equals key when the key is present,
\* and fails with std::out_of_range when it is absent, leaving the memory
\* as it was in both cases; after m[k] = v, at(k) returns v, and after a
\* following erase(k), at(k) fails.
C8_At ==
    facade = "map" =>
        \A c \in alive : \A k \in Ids :
            LET r == at(Cur, c, k)
                here == Present(Cur, c, k)
            IN  /\ r.S = Cur
                /\ here =>
                      /\ r.ok
                      /\ r.it = NodeOf(Cur, c, k)
                      /\ r.n = mapped[NodeOf(Cur, c, k)]
                /\ ~here => ~r.ok
                /\ (Insertable(c) /\ (here \/ CanAlloc(Cur))) =>
                      \A v \in MappedVals :
                          LET S1 == subscript_assign(Cur, c, k, v).S
                              S2 == erase(S1, c, k).S
                          IN  /\ at(S1, c, k).ok
                              /\ at(S1, c, k).n = v
                              /\ ~at(S2, c, k).ok
                              /\ at(S2, c, k).S = S2

\* A map <<2, 1>> where key 1 holds a non-default value: at tells the two
\* values apart, fails for key 3, returns 1 after m[3] = 1 and fails again
\* after erase(3).
C8_Witness ==
    /\ facade = "map"
    /\ \E c \in alive :
          /\ Insertable(c)
          /\ Iterate(Cur, c) = <<2, 1>>
          /\ at(Cur, c, 1).ok /\ at(Cur, c, 1).n = DefaultMapped + 1
          /\ at(Cur, c, 2).ok /\ at(Cur, c, 2).n = DefaultMapped
          /\ ~at(Cur, c, 3).ok
          /\ CanAlloc(Cur)
          /\ at(subscript_assign(Cur, c, 3, DefaultMapped + 1).S, c, 3).n
                = DefaultMapped + 1
          /\ ~at(erase(subscript_assign(Cur, c, 3, DefaultMapped + 1).S,
                       c, 3).S, c, 3).ok

(***************************************************************************)
(* C9  fifo_map::operator[]                                                *)
(***************************************************************************)

\* C9: on the map facade, in every reachable state, operator[](key) on a
\* present key returns the node's mapped value and the memory as it was; on
\* an absent key it appends exactly one node with that key and a
\* value-initialised mapped value at the back of the order and refers to
\* that node's mapped value, after which count(key) is 1; no other node and
\* no other container changes.
C9_Subscript ==
    facade = "map" =>
        \A c \in alive : \A k \in Ids :
            /\ Present(Cur, c, k) =>
                  subscript(Cur, c, k) =
                      Res(Cur, NodeOf(Cur, c, k), FALSE,
                          mapped[NodeOf(Cur, c, k)])
            /\ (~Present(Cur, c, k) /\ Insertable(c) /\ CanAlloc(Cur)) =>
                  LET r == subscript(Cur, c, k) IN
                  /\ r.ok
                  /\ r.n = DefaultMapped
                  /\ Iterate(r.S, c) = Append(Iterate(Cur, c), k)
                  /\ r.it = Last(Nodes(r.S, c))
                  /\ r.S.val[r.it] = k
                  /\ r.S.mapped[r.it] = DefaultMapped
                  /\ r.S.live = live \cup {r.it}
                  /\ r.it \notin live
                  /\ \A a \in live :
                        r.S.val[a] = val[a] /\ r.S.mapped[a] = mapped[a]
                  /\ count(r.S, c, k).n = 1
                  /\ size(r.S, c).n = size(Cur, c).n + 1
                  /\ \A d \in Containers \ {c} :
                        /\ Nodes(r.S, d) = Nodes(Cur, d)
                        /\ r.S.map[d] = map[d]
                        /\ r.S.list_back[d] = list_back[d]

\* A map <<1, 3>> where key 1 holds a non-default value: m[1] returns it
\* and inserts nothing, m[2] appends key 2 with the default value.
C9_Witness ==
    /\ facade = "map"
    /\ \E c \in alive :
          /\ Insertable(c)
          /\ CanAlloc(Cur)
          /\ Iterate(Cur, c) = <<1, 3>>
          /\ subscript(Cur, c, 1).n = DefaultMapped + 1
          /\ ~subscript(Cur, c, 1).ok
          /\ Iterate(subscript(Cur, c, 2).S, c) = <<1, 3, 2>>
          /\ subscript(Cur, c, 2).ok
          /\ subscript(Cur, c, 2).n = DefaultMapped

(***************************************************************************)
(* C10  Move construction and move assignment                              *)
(***************************************************************************)

\* What holds of the destination d in the memory R a move from s leaves,
\* relative to the memory Cur before the move.
MovedInto(R, d, s) ==
    /\ Iterate(R, d) = Iterate(Cur, s)
    /\ Nodes(R, d) = Nodes(Cur, s)
    /\ IndexMatchesList(R, d)
    /\ PredecessorEntries(R, d)
    /\ ~list_empty(R, d) => R.map[d][Nodes(R, d)[1]] = before_begin(d)
    /\ R.list_back[d] = before_begin(d) <=> list_empty(R, d)
    /\ LET order == Iterate(R, d) IN
       \A x \in Ids :
          /\ (x \in Range(order) \/ CanAlloc(R)) =>
                /\ Iterate(emplace_back(R, d, x, DefaultMapped).S, d)
                      = RefAppend(order, x)
                /\ facade = "set" =>
                      Iterate(emplace_front(R, d, x).S, d)
                         = RefPrepend(order, x)
          /\ LET E == erase(R, d, x).S IN
             /\ Iterate(E, d) = RefRemove(order, x)
             /\ E.list_back[d] = before_begin(d) <=> list_empty(E, d)

\* C10: in every reachable state, move-constructing or move-assigning d
\* from another container s leaves d iterating exactly the sequence s held,
\* with the index in bijection with d's list, every entry the predecessor
\* of its node, the first node's entry d's own sentinel, list_back d's own
\* sentinel exactly when the moved sequence is empty, and a following
\* emplace_back, emplace_front or erase on d acting as on the reference
\* list; after move assignment none of d's previous nodes remains
\* allocated, in d's list or referred to by d's index.  The states after a
\* move and after every later operation are themselves reachable, and in
\* them d iterates the reference list that began as the moved sequence and
\* keeps its index and predecessor entries; list_back of a container that
\* is not a moved-from source is its own sentinel exactly when it is empty.
C10_MoveInto ==
    /\ \A d \in Containers : \A s \in alive \ {d} :
          IF d \in alive
          THEN LET R == move_assign(Cur, d, s).S IN
               /\ MovedInto(R, d, s)
               /\ \A a \in Range(Nodes(Cur, d)) :
                     /\ a \notin R.live
                     /\ a \notin Range(Nodes(R, d))
                     /\ a \notin Keys(R, d)
          ELSE MovedInto(move_construct(Cur, d, s).S, d, s)
    /\ \A d \in Containers :
          /\ Iterate(Cur, d) = model[d]
          /\ IndexMatchesList(Cur, d)
          /\ PredecessorEntries(Cur, d)
          /\ ~movedFrom[d] =>
                (list_back[d] = before_begin(d) <=> list_empty(Cur, d))

\* Container 2 holds <<2, 3, 1>> received by a move from container 1: its
\* first entry is its own sentinel, and list_back of the moved-from
\* container 1 still holds the node that is now the last node of 2.
C10_Witness ==
    /\ movedFrom[1]
    /\ 2 \in alive
    /\ Iterate(Cur, 2) = <<2, 3, 1>>
    /\ map[2][Nodes(Cur, 2)[1]] = before_begin(2)
    /\ list_back[2] = Nodes(Cur, 2)[3]
    /\ list_back[1] = list_back[2]
    /\ list_empty(Cur, 1)


(***************************************************************************)
(* Vocabulary of the properties, continued                                 *)
(***************************************************************************)

\* What another object can observe of container c: its nodes, the order of
\* iteration, its index entries and its tail cursor.
View(S, c) == <<Nodes(S, c), Iterate(S, c), S.map[c], S.list_back[c]>>

\* The tail cursor as emplace_back needs it: the last node of c's list, c's
\* own before-begin slot when the list is empty.
TailAtEnd(S, c) ==
    S.list_back[c] =
        IF list_empty(S, c) THEN before_begin(c) ELSE Last(Nodes(S, c))

\* The invariants of a container in memory S: index and list in bijection
\* with unique identities, every entry the predecessor of its node, the
\* tail cursor at the end of the list and c's own sentinel exactly when c
\* is empty.
WellFormed(S, c) ==
    /\ IndexMatchesList(S, c)
    /\ PredecessorEntries(S, c)
    /\ TailAtEnd(S, c)
    /\ S.list_back[c] = before_begin(c) <=> list_empty(S, c)

\* One insertion, erase or clear on c leaves what is observed of o as it is.
LeavesAlone(S, c, o) ==
    /\ View(clear(S, c).S, o) = View(S, o)
    /\ \A x \in Ids :
          /\ View(erase(S, c, x).S, o) = View(S, o)
          /\ (~movedFrom[c] /\ (MapFind(S, c, x) # NoEntry \/ CanAlloc(S)))
                => /\ View(emplace_back(S, c, x, DefaultMapped).S, o)
                         = View(S, o)
                   /\ View(emplace_front(S, c, x).S, o) = View(S, o)

(***************************************************************************)
(* C11  Copy construction                                                  *)
(***************************************************************************)

\* C11: on the set facade and in every reachable state, copy-constructing d
\* from a container s (with memory for the nodes) leaves d iterating the
\* elements of s in the same order, well-formed with nodes that were not
\* allocated before, its first entry and (when empty) its tail on its own
\* sentinel; the nodes, order, index entries and tail of s are as they
\* were; and one later insertion, erase or clear on either of the two
\* leaves the nodes, order, index entries and tail of the other as they
\* were.  In every state whose last mutating call was such a copy, and in
\* every state with two containers, the same independence holds.
C11_CopyConstruct ==
    facade = "set" =>
        /\ \A d \in Containers \ alive : \A s \in alive :
              FreeNodes(Cur) >= Len(Nodes(Cur, s)) =>
                  LET R == copy_construct(Cur, d, s).S IN
                  /\ Iterate(R, d) = Iterate(Cur, s)
                  /\ WellFormed(R, d)
                  /\ Range(Nodes(R, d)) \cap live = {}
                  /\ Range(Nodes(R, d)) \cap Range(Nodes(R, s)) = {}
                  /\ View(R, s) = View(Cur, s)
                  /\ \A a \in live : R.val[a] = val[a] /\ R.next[a] = next[a]
                  /\ LeavesAlone(R, d, s)
                  /\ LeavesAlone(R, s, d)
        /\ \A d \in alive : \A s \in alive \ {d} :
              /\ LeavesAlone(Cur, d, s)
              /\ copyOf[d] = <<"constructed", s>> =>
                    /\ Iterate(Cur, d) = Iterate(Cur, s)
                    /\ Range(Nodes(Cur, d)) \cap Range(Nodes(Cur, s)) = {}
                    /\ WellFormed(Cur, d)

\* Container 2 has just been copy-constructed from container 1, which holds
\* <<2, 1>>: both iterate <<2, 1>>, over different nodes, each with its own
\* sentinel as first entry and its own last node as tail.
C11_Witness ==
    /\ facade = "set"
    /\ copyOf[2] = <<"constructed", 1>>
    /\ Iterate(Cur, 1) = <<2, 1>>
    /\ Iterate(Cur, 2) = <<2, 1>>
    /\ Range(Nodes(Cur, 1)) \cap Range(Nodes(Cur, 2)) = {}
    /\ map[2][Nodes(Cur, 2)[1]] = before_begin(2)
    /\ list_back[2] = Nodes(Cur, 2)[2]
    /\ list_back[1] = Nodes(Cur, 1)[2]

(***************************************************************************)
(* C12  erase(list_iterator) with a handle of another container            *)
(***************************************************************************)

\* C12: in every reachable state, erase-by-iterator on container c with a
\* handle h that is not a node of c's list (a node of another container's
\* list, or the address of a node that has been freed) fails, the
\* assertion not holding, and leaves c's nodes, iteration order, index
\* entries, tail cursor and size as they were, also when c holds a node
\* whose identity equals the one read through h.
C12_ForeignHandleRejected ==
    \A c \in alive : \A h \in Addrs \ Range(Nodes(Cur, c)) :
        LET r == erase_it(Cur, c, h) IN
        /\ ~r.ok
        /\ View(r.S, c) = View(Cur, c)
        /\ size(r.S, c).n = size(Cur, c).n
        /\ r.S = Cur

(***************************************************************************)
(* C13  Allocation failure during an insertion                             *)
(***************************************************************************)

\* C13: in every reachable state, when an insertion of an absent identity
\* (emplace / emplace_back, operator[] which inserts through emplace, or
\* emplace_front on the set facade) meets an allocation failure, either
\* for the list node or for the index entry, the failure is propagated and
\* the container has made no structural change: its nodes, order, index
\* entries and tail are as they were, index and list are in bijection (no
\* node without an entry), every entry is the predecessor of its node and
\* the tail cursor is at the end of the list.
C13_InsertionAllOrNothing ==
    \A c \in alive : \A x \in Ids : \A step \in AllocSteps :
        (~movedFrom[c] /\ MapFind(Cur, c, x) = NoEntry /\ CanAlloc(Cur)) =>
            /\ LET r == append_new_bad_alloc(Cur, c, x, DefaultMapped, step)
               IN  /\ ~r.ok
                   /\ View(r.S, c) = View(Cur, c)
                   /\ WellFormed(r.S, c)
            /\ facade = "set" =>
                  LET r == prepend_new_bad_alloc(Cur, c, x, step)
                  IN  /\ ~r.ok
                      /\ View(r.S, c) = View(Cur, c)
                      /\ WellFormed(r.S, c)

(***************************************************************************)
(* C14  The tail cursor                                                    *)
(***************************************************************************)

WithoutNode(S, c, a) ==
    LET n == Nodes(S, c)
        i == IndexOf(n, a)
        p == IF i = 1 THEN before_begin(c) ELSE n[i - 1]
        wasLast == i = Len(n)
    IN  [live |-> S.live \ {a},
         next |-> [q \in Pos |-> IF q = p THEN S.next[a]
                                 ELSE IF q = a THEN End ELSE S.next[q]],
         val |-> [S.val EXCEPT ![a] = NoId],
         mapped |-> [S.mapped EXCEPT ![a] = DefaultMapped],
         map |-> [S.map EXCEPT ![c] =
                    [b \in Addrs |->
                        IF b = a THEN NoEntry
                        ELSE IF ~wasLast /\ b = n[i + 1] THEN p
                        ELSE S.map[c][b]]],
         list_back |-> IF wasLast THEN [S.list_back EXCEPT ![c] = p]
                       ELSE S.list_back]

\* C15: in every reachable state and for every node a of every container,
\* erase by identity of a's identity and erase by the iterator a both
\* leave exactly the memory described by the claim: a and its entry are
\* gone; if a was last the tail cursor is a's former predecessor and no
\* entry changed, otherwise the entry of a's successor is a's former
\* predecessor and the tail cursor did not change; every other node keeps
\* its address, value, mapped value, entry and relative order, and the
\* other container is as it was.
C15_EraseFrame ==
    \A c \in alive :
        LET n == Nodes(Cur, c) IN
        \A i \in 1 .. Len(n) :
            LET a == n[i]
                E == erase(Cur, c, val[a]).S
            IN  /\ E = WithoutNode(Cur, c, a)
                /\ erase_it(Cur, c, a).S = E
                /\ erase_it(Cur, c, a).ok
                /\ Nodes(E, c) = SelectSeq(n, LAMBDA b : b # a)
                /\ \A o \in Containers \ {c} : View(E, o) = View(Cur, o)
                /\ IF i = Len(n)
                   THEN /\ E.list_back[c] =
                              (IF i = 1 THEN before_begin(c) ELSE n[i - 1])
                        /\ \A b \in Addrs \ {a} : E.map[c][b] = map[c][b]
                   ELSE /\ E.list_back[c] = list_back[c]
                        /\ E.map[c][n[i + 1]] =
                              (IF i = 1 THEN before_begin(c) ELSE n[i - 1])
                        /\ \A b \in Addrs \ {a, n[i + 1]} :
                              E.map[c][b] = map[c][b]

\* Container 1 holds <<3, 1, 2>> in nodes <<3, 1, 2>> and container 2 holds
\* one node: erasing the middle element rebinds the entry of the last node
\* and keeps the tail, erasing the last element moves the tail back and
\* changes no entry, erasing the first element rebinds the entry of the
\* second node to the sentinel.
C15_Witness ==
    /\ Nodes(Cur, 1) = <<3, 1, 2>>
    /\ Iterate(Cur, 1) = <<3, 1, 2>>
    /\ Len(Nodes(Cur, 2)) = 1
    /\ LET M == erase(Cur, 1, 1).S
           L == erase_it(Cur, 1, 2).S
           F == erase(Cur, 1, 3).S
       IN  /\ Nodes(M, 1) = <<3, 2>>
           /\ M.map[1][2] = 3
           /\ M.list_back[1] = 2
           /\ Nodes(L, 1) = <<3, 1>>
           /\ L.list_back[1] = 1
           /\ L.map[1] = [map[1] EXCEPT ![2] = NoEntry]
           /\ Nodes(F, 1) = <<1, 2>>
           /\ F.map[1][1] = before_begin(1)
           /\ F.list_back[1] = 2

(***************************************************************************)
(* C16  emplace_front of an absent identity                                *)
(***************************************************************************)

\* C16: on the set facade, in every reachable state and for every identity
\* x absent from a container c that may be inserted into, emplace_front(x)
\* returns a new node and true; the node is first in the iteration and its
\* entry is c's sentinel.  If c was not empty the entry of the previously
\* first node changes from the sentinel to the new node, no other entry
\* changes and the tail cursor is unchanged; if c was empty the new node
\* is also the tail cursor, and an emplace_back that follows appends after
\* it.
C16_EmplaceFrontAbsent ==
    facade = "set" =>
        \A c \in alive : \A x \in Ids :
            (Insertable(c) /\ ~Present(Cur, c, x) /\ CanAlloc(Cur)) =>
                LET r == emplace_front(Cur, c, x)
                    n == Nodes(Cur, c)
                    a == r.it
                IN  /\ r.ok
                    /\ a \notin live
                    /\ Nodes(r.S, c) = <<a>> \o n
                    /\ Iterate(r.S, c) = <<x>> \o Iterate(Cur, c)
                    /\ r.S.map[c][a] = before_begin(c)
                    /\ \A o \in Containers \ {c} : View(r.S, o) = View(Cur, o)
                    /\ IF n # <<>>
                       THEN /\ map[c][n[1]] = before_begin(c)
                            /\ r.S.map[c][n[1]] = a
                            /\ \A b \in Addrs \ {a, n[1]} :
                                  r.S.map[c][b] = map[c][b]
                            /\ r.S.list_back[c] = list_back[c]
                       ELSE /\ r.S.list_back[c] = a
                            /\ \A b \in Addrs \ {a} :
                                  r.S.map[c][b] = map[c][b]
                            /\ \A y \in Ids \ {x} :
                                  CanAlloc(r.S) =>
                                      Iterate(emplace_back(r.S, c, y,
                                                  DefaultMapped).S, c)
                                         = <<x, y>>

\* Container 1 of a set holds <<2, 3>> and container 2 is empty:
\* emplace_front(1) on container 1 gives <<1, 2, 3>>, rebinds the entry of
\* the node of 2 and keeps the tail; emplace_front(1) on container 2 makes
\* the new node its tail, and emplace_back(2) then gives <<1, 2>>.
C16_Witness ==
    /\ facade = "set"
    /\ Iterate(Cur, 1) = <<2, 3>>
    /\ Insertable(1) /\ Insertable(2)
    /\ list_empty(Cur, 2)
    /\ FreeNodes(Cur) = 2
    /\ LET r == emplace_front(Cur, 1, 1)
           e == emplace_front(Cur, 2, 1)
       IN  /\ Iterate(r.S, 1) = <<1, 2, 3>>
           /\ r.S.map[1][Nodes(Cur, 1)[1]] = r.it
           /\ r.S.list_back[1] = list_back[1]
           /\ e.S.list_back[2] = e.it
           /\ Iterate(emplace_back(e.S, 2, 2, DefaultMapped).S, 2) = <<1, 2>>

(***************************************************************************)
(* C17  clear                                                              *)
(***************************************************************************)

\* The members of container c are those of a default-constructed object.
AsConstructed(S, c) ==
    /\ S.map[c] = EmptyMap
    /\ S.next[before_begin(c)] = End
    /\ S.list_back[c] = before_begin(c)

\* C17: in every reachable state and for every container c, moved-from or
\* not, clear() leaves c with the members of a default-constructed
\* container: the list and the index are empty, size() is 0, begin() is
\* end(), list_back is c's own sentinel; the nodes c owned are freed and
\* the other container is as it was.  Insertions and erases that follow
\* give the iteration order they give from the empty reference list: one
\* insertion at either end yields <<x>>, two insertions yield <<x, y>> or
\* <<y, x>>, an erase of the first of two leaves the second; and in every
\* reachable state the container that was cleared, like the one that was
\* default-constructed, iterates its reference list.
C17_ClearResets ==
    /\ \A c \in alive :
          LET R == clear(Cur, c).S IN
          /\ AsConstructed(R, c)
          /\ Nodes(R, c) = <<>>
          /\ Keys(R, c) = {}
          /\ size(R, c).n = 0
          /\ empty(R, c).ok
          /\ R.live = live \ Range(Nodes(Cur, c))
          /\ \A o \in Containers \ {c} : View(R, o) = View(Cur, o)
          /\ \A x \in Ids :
                CanAlloc(R) =>
                    LET B == emplace_back(R, c, x, DefaultMapped).S
                        F == emplace_front(R, c, x).S
                    IN  /\ Iterate(B, c) = <<x>>
                        /\ WellFormed(B, c)
                        /\ Iterate(erase(B, c, x).S, c) = <<>>
                        /\ facade = "set" =>
                              /\ Iterate(F, c) = <<x>>
                              /\ WellFormed(F, c)
                        /\ \A y \in Ids \ {x} :
                              CanAlloc(B) =>
                                  LET BB == emplace_back(B, c, y,
                                                DefaultMapped).S
                                  IN  /\ Iterate(BB, c) = <<x, y>>
                                      /\ Iterate(erase(BB, c, x).S, c)
                                            = <<y>>
                                      /\ facade = "set" =>
                                            Iterate(emplace_front(B, c, y).S,
                                                    c) = <<y, x>>
    /\ \A c \in Containers :
          /\ Iterate(Cur, c) = model[c]
          /\ c \notin alive => AsConstructed(Cur, c)

\* Container 2 holds <<2, 1>>, received by a move from container 1, whose
\* list_back is still the last node of container 2.  clear() on container
\* 2 frees both nodes and leaves it as constructed; clear() on container 1
\* resets its list_back, so that an emplace_back that follows builds <<3>>
\* in container 1 and leaves container 2 alone.
C17_Witness ==
    /\ movedFrom[1]
    /\ Iterate(Cur, 2) = <<2, 1>>
    /\ list_back[1] = Nodes(Cur, 2)[2]
    /\ LET R == clear(Cur, 1).S
           B == emplace_back(R, 1, 3, DefaultMapped).S
           Q == clear(Cur, 2).S
       IN  /\ R.list_back[1] = before_begin(1)
           /\ Iterate(B, 1) = <<3>>
           /\ View(B, 2) = View(Cur, 2)
           /\ AsConstructed(Q, 2)
           /\ Q.live = {}

(***************************************************************************)
(* C18  The source of a move                                               *)
(***************************************************************************)

\* C18: in every reachable state, a container s that has been the source
\* of a move construction or move assignment (and has not been cleared,
\* assigned to or destroyed since) is a valid empty container: size() is
\* 0, its iteration is empty, its tail cursor is its own sentinel, and an
\* emplace_back on it puts the element into s, which then iterates <<x>>,
\* and leaves the nodes, order, index entries and tail of the other
\* container as they were.
C18_MovedFromIsEmptyContainer ==
    \A s \in alive :
        movedFrom[s] =>
            /\ size(Cur, s).n = 0
            /\ Iterate(Cur, s) = <<>>
            /\ list_back[s] = before_begin(s)
            /\ \A x \in Ids :
                  CanAlloc(Cur) =>
                      LET B == emplace_back(Cur, s, x, DefaultMapped).S IN
                      /\ Iterate(B, s) = <<x>>
                      /\ size(B, s).n = 1
                      /\ \A d \in Containers \ {s} :
                            View(B, d) = View(Cur, d)

(***************************************************************************)
(* C19  Copy assignment                                                    *)
(***************************************************************************)

\* C19: on the set facade, in every reachable state and for every
\* destination d and source s, d and s the same container included, copy
\* assignment d = s (with memory for the nodes once d's own are released)
\* leaves d iterating exactly the sequence s held before the assignment,
\* and d well-formed.
C19_CopyAssign ==
    facade = "set" =>
        \A d \in alive : \A s \in alive :
            FreeNodes(Cur) + Len(Nodes(Cur, d)) >= Len(Nodes(Cur, s)) =>
                LET R == copy_assign(Cur, d, s).S IN
                /\ Iterate(R, d) = Iterate(Cur, s)
                /\ WellFormed(R, d)

(***************************************************************************)
(* C20  list_back is the last node                                         *)
(***************************************************************************)

\* C20: in every reachable state and for every container c that is not a
\* moved-from source, whatever insertions at either end, erasures, clears
\* and moves into c led there, the member list_back is the last node of
\* c's list, a node whose link is end(), or c's own before-begin slot when
\* the list is empty; and emplace_back of an absent identity links the new
\* node after the previous list_back as the last node of the list, with
\* the previous list_back as its index entry.
C20_ListBackIsLastNode ==
    \A c \in alive :
        ~movedFrom[c] =>
            /\ TailAtEnd(Cur, c)
            /\ next[list_back[c]] = End
            /\ list_back[c] \in Range(Nodes(Cur, c)) \cup {before_begin(c)}
            /\ \A x \in Ids :
                  (~Present(Cur, c, x) /\ CanAlloc(Cur)) =>
                      LET r == emplace_back(Cur, c, x, DefaultMapped) IN
                      /\ r.ok
                      /\ Nodes(r.S, c) = Append(Nodes(Cur, c), r.it)
                      /\ r.S.next[list_back[c]] = r.it
                      /\ r.S.next[r.it] = End
                      /\ r.S.list_back[c] = r.it
                      /\ r.S.map[c][r.it] = list_back[c]

\* Container 2 of a set received its list by a move from container 1 and
\* has since erased the node that was last at the move (list_back of
\* container 1 still holds that freed address) and grown at the front: it
\* holds <<3, 1>>, list_back is its last node, and emplace_back(2) appends
\* a node after it.
C20_Witness ==
    /\ facade = "set"
    /\ movedFrom[1]
    /\ 2 \in alive /\ ~movedFrom[2]
    /\ list_back[1] \in Addrs \ live
    /\ Iterate(Cur, 2) = <<3, 1>>
    /\ list_back[2] = Nodes(Cur, 2)[2]
    /\ LET r == emplace_back(Cur, 2, 2, DefaultMapped)
       IN  /\ Iterate(r.S, 2) = <<3, 1, 2>>
           /\ Nodes(r.S, 2) = Append(Nodes(Cur, 2), r.it)
====
